---- MODULE Spec2Model ----
(***************************************************************************)
(* Library reconciliation of the Gamesphere Import Tool (src/main.py).     *)
(*                                                                         *)
(* Python strings that the code parses (commands, paths, identities) are   *)
(* sequences of one-character strings, so that prefix tests, slicing,      *)
(* searching and path normalisation are computed the way the code computes *)
(* them.  Display names and the fixed structural fields of an entry are    *)
(* never parsed by the code and are kept as atomic strings.                *)
(***************************************************************************)
EXTENDS Integers, Sequences, FiniteSets, TLC

(***************************************************************************)
(* Python str primitives                                                   *)
(***************************************************************************)
None == <<>>          \* Optional[str] results the code only tests for truth

\* sub occurs in s at the 1-based position i
MatchAt(s, sub, i) ==
    /\ i >= 1
    /\ i + Len(sub) - 1 <= Len(s)
    /\ \A k \in 1..Len(sub) : s[i + k - 1] = sub[k]

StartsWith(s, p) == MatchAt(s, p, 1)

EndsWith(s, p) == MatchAt(s, p, Len(s) - Len(p) + 1)

\* str.find(sub, start) with 1-based positions; 0 when sub does not occur
RECURSIVE FindFrom(_, _, _)
FindFrom(s, sub, from) ==
    IF from + Len(sub) - 1 > Len(s) THEN 0
    ELSE IF MatchAt(s, sub, from) THEN from
    ELSE FindFrom(s, sub, from + 1)

Find(s, sub) == FindFrom(s, sub, 1)

Contains(s, sub) == Find(s, sub) # 0

\* str.rfind of a single character, 1-based; 0 when absent
RECURSIVE RFindFrom(_, _, _)
RFindFrom(s, c, from) ==
    IF from < 1 THEN 0
    ELSE IF s[from] = c THEN from
    ELSE RFindFrom(s, c, from - 1)

RFindChar(s, c) == RFindFrom(s, c, Len(s))

Whitespace == {" ", "\t", "\n", "\r"}

\* str.strip()
RECURSIVE FirstKept(_, _)
FirstKept(s, i) ==
    IF i > Len(s) \/ s[i] \notin Whitespace THEN i ELSE FirstKept(s, i + 1)

RECURSIVE LastKept(_, _)
LastKept(s, j) ==
    IF j < 1 \/ s[j] \notin Whitespace THEN j ELSE LastKept(s, j - 1)

Strip(s) ==
    IF s = <<>> \/ (s[1] \notin Whitespace /\ s[Len(s)] \notin Whitespace) THEN s
    ELSE SubSeq(s, FirstKept(s, 1), LastKept(s, Len(s)))

UpperChars == <<"A","B","C","D","E","F","G","H","I","J","K","L","M",
                "N","O","P","Q","R","S","T","U","V","W","X","Y","Z">>
LowerChars == <<"a","b","c","d","e","f","g","h","i","j","k","l","m",
                "n","o","p","q","r","s","t","u","v","w","x","y","z">>
Digits == {"0","1","2","3","4","5","6","7","8","9"}

LowerChar(c) ==
    IF \E i \in 1..26 : UpperChars[i] = c
    THEN LowerChars[CHOOSE i \in 1..26 : UpperChars[i] = c]
    ELSE c

\* str.lower()
Lower(s) == [i \in 1..Len(s) |-> LowerChar(s[i])]

\* str.isalnum() of one character (ASCII)
IsAlnum(c) ==
    \/ c \in Digits
    \/ \E i \in 1..26 : UpperChars[i] = c \/ LowerChars[i] = c

\* s.split(c)[0]: the part before the first c
BeforeFirst(s, c) ==
    LET i == Find(s, <<c>>)
    IN  IF i = 0 THEN s ELSE SubSeq(s, 1, i - 1)

\* s.split(c)[-1]: the part after the last c
AfterLast(s, c) == SubSeq(s, RFindChar(s, c) + 1, Len(s))

\* s.split(seps): the components between separator characters
RECURSIVE SplitAt(_, _, _, _)
SplitAt(s, seps, i, cur) ==
    IF i > Len(s) THEN <<cur>>
    ELSE IF s[i] \in seps THEN <<cur>> \o SplitAt(s, seps, i + 1, <<>>)
    ELSE SplitAt(s, seps, i + 1, Append(cur, s[i]))

Split(s, seps) == SplitAt(s, seps, 1, <<>>)

RECURSIVE JoinWith(_, _)
JoinWith(comps, sep) ==
    IF comps = <<>> THEN <<>>
    ELSE IF Len(comps) = 1 THEN comps[1]
    ELSE comps[1] \o <<sep>> \o JoinWith(Tail(comps), sep)

(***************************************************************************)
(* os.path on the two families of platform.  os is "nt" or "posix".        *)
(* UNC prefixes do not occur in the paths the model feeds and are not      *)
(* modelled; everything else follows ntpath / posixpath.                   *)
(***************************************************************************)
Sep(os) == IF os = "nt" THEN "\\" ELSE "/"

Seps(os) == IF os = "nt" THEN {"\\", "/"} ELSE {"/"}

\* ntpath.splitdrive: a drive is a letter followed by a colon
DriveLen(os, p) == IF os = "nt" /\ Len(p) >= 2 /\ p[2] = ":" THEN 2 ELSE 0

\* the component stack of normpath: "." and empty components are dropped,
\* ".." pops a component, stays when nothing can be popped on a relative path
RECURSIVE NormComps(_, _, _)
NormComps(comps, acc, rooted) ==
    IF comps = <<>> THEN acc
    ELSE LET c == Head(comps)
             rest == Tail(comps)
         IN  IF c = <<>> \/ c = <<".">> THEN NormComps(rest, acc, rooted)
             ELSE IF c = <<".", ".">>
                  THEN IF acc # <<>> /\ acc[Len(acc)] # <<".", ".">>
                       THEN NormComps(rest, SubSeq(acc, 1, Len(acc) - 1), rooted)
                       ELSE IF rooted THEN NormComps(rest, acc, rooted)
                       ELSE NormComps(rest, Append(acc, c), rooted)
             ELSE NormComps(rest, Append(acc, c), rooted)

\* os.path.normpath
NormPath(os, p) ==
    LET d == DriveLen(os, p)
        drive == SubSeq(p, 1, d)
        rest == SubSeq(p, d + 1, Len(p))
        rooted == rest # <<>> /\ rest[1] \in Seps(os)
        slashes == IF ~rooted THEN <<>>
                   ELSE IF os = "posix" /\ Len(rest) >= 2 /\ rest[2] = "/"
                           /\ ~(Len(rest) >= 3 /\ rest[3] = "/")
                        THEN <<"/", "/">>
                   ELSE <<Sep(os)>>
        body == JoinWith(NormComps(Split(rest, Seps(os)), <<>>, rooted), Sep(os))
        out == drive \o slashes \o body
    IN  IF p = <<>> THEN <<".">>
        ELSE IF out = <<>> THEN <<".">> ELSE out

\* os.path.join(a, b) for a relative b
PathJoin(os, a, b) ==
    IF a = <<>> \/ a[Len(a)] \in Seps(os) \/ (os = "nt" /\ a[Len(a)] = ":")
    THEN a \o b
    ELSE a \o <<Sep(os)>> \o b

\* the last position of s, at or before from, whose character is in cs; 0 if none
RECURSIVE LastIn(_, _, _)
LastIn(s, cs, from) ==
    IF from < 1 THEN 0
    ELSE IF s[from] \in cs THEN from
    ELSE LastIn(s, cs, from - 1)

RECURSIVE LastNotIn(_, _, _)
LastNotIn(s, cs, from) ==
    IF from < 1 THEN 0
    ELSE IF s[from] \notin cs THEN from
    ELSE LastNotIn(s, cs, from - 1)

\* os.path.dirname
DirName(os, p) ==
    LET d == DriveLen(os, p)
        rest == SubSeq(p, d + 1, Len(p))
        cut == LastIn(rest, Seps(os), Len(rest))
        head == SubSeq(rest, 1, cut)
        keep == LastNotIn(head, Seps(os), Len(head))
        trimmed == IF keep = 0 THEN head ELSE SubSeq(head, 1, keep)
    IN  SubSeq(p, 1, d) \o trimmed

\* os.path.abspath of an absolute path (every path of the model is absolute)
AbsPath(os, p) == NormPath(os, p)

(***************************************************************************)
(* String constants of the code                                            *)
(***************************************************************************)
STEAM_PREFIX == <<"s","t","e","a","m",":","/","/","r","u","n","g","a","m","e","i","d","/">>
EPIC_SCHEME == <<"c","o","m",".","e","p","i","c","g","a","m","e","s",".","l","a","u","n","c","h","e","r",":","/","/">>
EPIC_PREFIX == <<"c","o","m",".","e","p","i","c","g","a","m","e","s",".","l","a","u","n","c","h","e","r",":","/","/","a","p","p","s","/">>
EPIC_SUFFIX == <<"?","a","c","t","i","o","n","=","l","a","u","n","c","h","&","s","i","l","e","n","t","=","t","r","u","e">>
START_QUOTED == <<"s","t","a","r","t"," ","\"","\""," ","\"">>
CMD_START_QUOTED == <<"c","m","d"," ","/","c"," ","s","t","a","r","t"," ","\"","\""," ","\"">>
DOT_LNK == <<".","l","n","k">>
DOT_PNG == <<".","p","n","g">>
FLATPAK_STEAM_APP == <<"c","o","m",".","v","a","l","v","e","s","o","f","t","w","a","r","e",".","S","t","e","a","m">>
FLATPAK_RUN == <<"f","l","a","t","p","a","k"," ","r","u","n"," ","c","o","m",".","v","a","l","v","e","s","o","f","t","w","a","r","e",".","S","t","e","a","m"," ">>
STEAM_BIN == <<"s","t","e","a","m"," ">>
EPIC_ID_TAG == <<"e","p","i","c","_">>
XBOX_ID_TAG == <<"x","b","o","x","_">>
CUSTOM_ID_TAG == <<"c","u","s","t","o","m","_">>
SUNSHINE == <<"s","u","n","s","h","i","n","e">>
APOLLO == <<"a","p","o","l","l","o">>

(***************************************************************************)
(* The machines, folders and titles of the model                           *)
(***************************************************************************)
\* os is os.name, sys is sys.platform; flatpak_present tells whether the
\* flatpak binary can be started, flatpak_out is the stdout of `flatpak list`
Platforms ==
    { [os |-> "nt", sys |-> "win32", flatpak_present |-> FALSE, flatpak_out |-> <<>>],
      [os |-> "posix", sys |-> "linux", flatpak_present |-> TRUE,
       flatpak_out |-> FLATPAK_STEAM_APP \o <<"\n">>],
      [os |-> "posix", sys |-> "linux", flatpak_present |-> TRUE, flatpak_out |-> <<>>],
      [os |-> "posix", sys |-> "darwin", flatpak_present |-> FALSE, flatpak_out |-> <<>>] }

\* SUNSHINE_GRIDS_FOLDER
GridsFolder(os) == IF os = "nt" THEN <<"C",":","\\","g">> ELSE <<"/","g">>

\* the values SUNSHINE_SHORTCUTS_FOLDER takes; <<>> is "not set"
ShortcutsFolders(os) == IF os = "nt" THEN {<<>>, <<"C",":","\\","s">>} ELSE {<<>>}

\* files of the user, outside the artwork directory
UserPic(os) == IF os = "nt" THEN <<"C",":","\\","u","\\","p",".","p","n","g">>
               ELSE <<"/","u","/","p",".","p","n","g">>
OldPic(os) == IF os = "nt" THEN <<"C",":","\\","u","\\","q",".","p","n","g">>
              ELSE <<"/","u","/","q",".","p","n","g">>
\* files inside the artwork directory that no run of the tool wrote
OrphanJpg(os) == IF os = "nt" THEN <<"C",":","\\","g","\\","n",".","j","p","g">>
                 ELSE <<"/","g","/","n",".","j","p","g">>
OrphanPng(os) == IF os = "nt" THEN <<"C",":","\\","g","\\","o",".","p","n","g">>
                 ELSE <<"/","g","/","o",".","p","n","g">>
\* a file of the artwork directory that the operating system refuses to delete
ReadOnlyPng(os) == IF os = "nt" THEN <<"C",":","\\","g","\\","r",".","p","n","g">>
                   ELSE <<"/","g","/","r",".","p","n","g">>

\* a shortcut the user keeps in the shortcuts folder
UserLnk == <<"C",":","\\","s","\\","e",".","l","n","k">>

\* a shortcut the user keeps in a sibling folder whose path begins with the
\* characters of the shortcuts folder
SiblingLnk == <<"C",":","\\","s","2","\\","e",".","l","n","k">>

XboxExe == <<"C",":","\\","x","\\","a",".","e","x","e">>
CustomExe(os) == IF os = "nt" THEN <<"C",":","\\","c","\\","b",".","e","x","e">>
                 ELSE <<"/","c","/","b">>
EpicApp == <<"F","n">>
Id100 == <<"1","0","0">>
Id200 == <<"2","0","0">>

\* os.path.isfile of an executable of the machine
IsExeFile(os, p) == p \in {XboxExe, CustomExe(os)}

(***************************************************************************)
(* ConfiguredApp: one entry of apps.json                                   *)
(***************************************************************************)
NewApp(name, cmd, image_path) ==
    [name |-> name, cmd |-> cmd, output |-> "", detached |-> "",
     elevated |-> "false", hidden |-> "true", wait_all |-> "true",
     exit_timeout |-> "5", image_path |-> image_path]

VARIABLES
    platform,          \* the machine
    shortcuts_folder,  \* SUNSHINE_SHORTCUTS_FOLDER, <<>> when not set
    apps_json,         \* the configuration file
    backup,            \* the .backup sibling of the configuration file
    user_backup,       \* the backup of the configuration file in the user folder
    files,             \* artwork and shortcut files: path -> content
    last,              \* what the last run was given, reported and did
    runs,              \* number of runs so far
    lookup,            \* one execution of get_game_name
    pool,              \* the worker pool of load_installed_games and the name cache
    resolve            \* one execution of fetch_grid

vars == <<platform, shortcuts_folder, apps_json, backup, user_backup, files, last, runs, lookup, pool, resolve>>

os_name == platform.os

(***************************************************************************)
(* Files                                                                   *)
(***************************************************************************)
Exists(fs, p) == p \in DOMAIN fs

WriteFile(fs, p, data) ==
    [q \in (DOMAIN fs) \cup {p} |-> IF q = p THEN data ELSE fs[q]]

\* os.remove; removing a read-only file raises, which every caller catches
\* and logs
Deletable(p) == p # ReadOnlyPng(os_name)

RemoveFile(fs, p) ==
    IF p \in DOMAIN fs /\ Deletable(p)
    THEN [q \in (DOMAIN fs) \ {p} |-> fs[q]]
    ELSE fs

\* os.listdir(folder) joined with folder: the files directly in folder
ListDir(fs, folder) ==
    { p \in DOMAIN fs : DirName(os_name, p) = folder }

(***************************************************************************)
(* Configuration Store.  The file is missing, or holds text that is not    *)
(* JSON, or JSON that is not an object, or a document: a function from its *)
(* top-level keys to their values.                                         *)
(***************************************************************************)
NoDoc == <<>>

FileOf(doc) == [kind |-> "doc", doc |-> doc]

\* a faulty variant of get_sunshine_config: a document without apps is
\* refused
LoadStrict(file) ==
    IF file.kind = "missing"
    THEN [ok |-> TRUE, config |-> [env |-> "", apps |-> <<>>]]
    ELSE IF file.kind # "doc" \/ "apps" \notin DOMAIN file.doc
    THEN [ok |-> FALSE, config |-> NoDoc]
    ELSE [ok |-> TRUE, config |-> file.doc]

\* get_sunshine_config: ok is FALSE when the load raises.  The kinds that
\* are not "doc" are text that is not JSON, JSON that is not an object, an
\* object whose apps is null (len(config['apps']) raises), and the beginning
\* of a document.
get_sunshine_config(file) ==
    IF file.kind = "missing"
    THEN [ok |-> TRUE, config |-> [env |-> "", apps |-> <<>>]]
    ELSE IF file.kind # "doc"
    THEN [ok |-> FALSE, config |-> NoDoc]
    ELSE LET c1 == IF "apps" \in DOMAIN file.doc THEN file.doc
                   ELSE file.doc @@ ("apps" :> <<>>)
             c2 == IF "env" \in DOMAIN c1 THEN c1 ELSE c1 @@ ("env" :> "")
         IN  [ok |-> TRUE, config |-> c2]

\* What the file system lets a save do.  "ok": every step succeeds;
\* "backup_fallback": copying to the .backup sibling is refused with
\* permission denied and the copy to the user folder succeeds;
\* "backup_denied": both copies are refused; "write_denied": the backup is
\* made and opening the configuration file for writing is refused;
\* "write_cut": the file is opened for writing, which empties it, and
\* json.dump fails (or the process dies) before the document is complete.
SaveOutcomes == {"ok", "backup_fallback", "backup_denied", "write_denied", "write_cut"}

\* the outcomes a save of the file can meet: the backup step is made for an
\* existing file only
SaveOutcomesFor(file) ==
    IF file.kind = "missing" THEN {"ok", "write_denied", "write_cut"} ELSE SaveOutcomes

\* a configuration file that holds the beginning of a document
Truncated == [kind |-> "truncated", doc |-> NoDoc]

\* a faulty variant of BackupStep: no copy is made
SkipBackup(file, bak, ubak, io) == [ok |-> TRUE, backup |-> bak, user_backup |-> ubak]

\* the first step of a save: the copy of an existing file to the .backup
\* sibling, or to the user folder when the sibling is refused
BackupStep(file, bak, ubak, io) ==
    IF file.kind = "missing" THEN [ok |-> TRUE, backup |-> bak, user_backup |-> ubak]
    ELSE IF io = "backup_denied" THEN [ok |-> FALSE, backup |-> bak, user_backup |-> ubak]
    ELSE IF io = "backup_fallback" THEN [ok |-> TRUE, backup |-> bak, user_backup |-> file]
    ELSE [ok |-> TRUE, backup |-> file, user_backup |-> ubak]

\* the last step of a save: open(path, 'w') and json.dump
WriteStep(file, config, io) ==
    IF io = "write_denied" THEN [ok |-> FALSE, file |-> file]
    ELSE IF io = "write_cut" THEN [ok |-> FALSE, file |-> Truncated]
    ELSE [ok |-> TRUE, file |-> FileOf(config)]

\* what a save leaves, given the results b and w of its two steps
SaveResult(file, bak, ubak, b, w) ==
    IF ~b.ok THEN [ok |-> FALSE, file |-> file, backup |-> bak, user_backup |-> ubak]
    ELSE [ok |-> w.ok, file |-> w.file, backup |-> b.backup, user_backup |-> b.user_backup]

\* save_sunshine_config: the file and its backups afterwards, and whether
\* the save returned without raising
save_sunshine_config(file, bak, ubak, config, io) ==
    SaveResult(file, bak, ubak, BackupStep(file, bak, ubak, io), WriteStep(file, config, io))

\* a faulty variant of WithApps: a fresh document is built around the list
OnlyApps(config, apps) == [env |-> "", apps |-> apps]

\* config['apps'] = apps: the loaded document with its apps list replaced
WithApps(config, apps) == [config EXCEPT !.apps = apps]

(***************************************************************************)
(* Shortcuts and the launch commands that use them                         *)
(***************************************************************************)
\* _create_shortcut_win on Windows when PowerShell succeeds: the shortcut
\* file is written (overwritten) with its target
WithLnkSuffix(norm) ==
    IF EndsWith(Lower(norm), DOT_LNK) THEN norm ELSE norm \o DOT_LNK

_create_shortcut_win(fs, shortcut_path, target) ==
    WriteFile(fs, WithLnkSuffix(NormPath("nt", shortcut_path)), target)

\* _read_shortcut_target_win
_read_shortcut_target_win(fs, shortcut_path) ==
    IF os_name # "nt" \/ ~Exists(fs, shortcut_path) THEN None
    ELSE Strip(fs[shortcut_path])

\* _shortcut_launch_cmd
_shortcut_launch_cmd(shortcut_path) ==
    CMD_START_QUOTED \o NormPath(os_name, shortcut_path) \o <<"\"">>

\* _extract_shortcut_path_from_cmd.  With p the 1-based position of
\* 'start "" "' in c, the code's i = c.index(...) + len(...) is the 0-based
\* index p - 1 + 10, c.index('"', i + 1) searches from the 1-based position
\* i + 2, and the slice c[i + 1:j] is the 1-based range i + 2 .. j.
_extract_shortcut_path_from_cmd(cmd) ==
    LET c == Strip(cmd)
        p == Find(c, START_QUOTED)
        i == (p - 1) + Len(START_QUOTED)
        jq == FindFrom(c, <<"\"">>, i + 2)
        path == SubSeq(c, i + 2, jq - 1)
    IN  IF p # 0 /\ Contains(c, DOT_LNK) /\ jq # 0 /\ EndsWith(Lower(path), DOT_LNK)
        THEN NormPath(os_name, path)
        ELSE IF EndsWith(Lower(c), DOT_LNK) /\ Sep(os_name) \in { c[k] : k \in 1..Len(c) }
        THEN NormPath(os_name, c)
        ELSE None

\* the AppName of an Epic protocol URL: the text after ".../apps/" up to the
\* first "?" and the first "/"
EpicAppNameOf(url) ==
    LET idx == Find(url, EPIC_PREFIX)
        rest == SubSeq(url, idx + Len(EPIC_PREFIX), Len(url))
    IN  Strip(BeforeFirst(BeforeFirst(rest, "?"), "/"))

\* the app id of a Steam protocol command
SteamAppIdOf(cmd) == BeforeFirst(AfterLast(cmd, "/"), "?")

(***************************************************************************)
(* process_existing_apps                                                   *)
(***************************************************************************)
\* the removal of a dropped entry's artwork file
RemoveGridImage(fs, app) ==
    LET grid_path == app.image_path
    IN  IF grid_path # <<>> /\ Exists(fs, grid_path)
        THEN RemoveFile(fs, grid_path)
        ELSE fs

\* _delete_shortcut_if_in_folder
_delete_shortcut_if_in_folder(fs, shortcut_path, shortcuts_folder_norm) ==
    IF shortcut_path = None \/ shortcuts_folder_norm = <<>> THEN fs
    ELSE LET p == NormPath(os_name, shortcut_path)
         IN  IF StartsWith(p, shortcuts_folder_norm) /\ Exists(fs, p)
             THEN RemoveFile(fs, p)
             ELSE fs

\* a faulty variant of Keep: an entry without a recorded identity is left
\* out of the list
DropUnowned(acc, app) == acc

\* the final else branch of the loop, shared by every branch that keeps an
\* entry without recording an identity
Keep(acc, app) == [acc EXCEPT !.updated_apps = Append(@, app)]

\* a faulty variant of ProcessSteamApp: the entry is matched by its display
\* name as well as by its app id
ProcessSteamAppByName(acc, app, cmd, installed_games) ==
    LET app_id == SteamAppIdOf(cmd)
    IN  IF app_id \in DOMAIN installed_games /\ installed_games[app_id] = app.name
        THEN [acc EXCEPT !.updated_apps = Append(@, app),
                         !.existing_steam_apps = @ \cup {app_id}]
        ELSE [acc EXCEPT !.removed_steam = Append(@, <<app.name, app_id>>),
                         !.fs = RemoveGridImage(@, app)]

\* the branch of the loop for a Steam protocol command
ProcessSteamApp(acc, app, cmd, installed_games) ==
    LET app_id == SteamAppIdOf(cmd)
    IN  IF app_id \in DOMAIN installed_games
        THEN [acc EXCEPT !.updated_apps = Append(@, app),
                         !.existing_steam_apps = @ \cup {app_id}]
        ELSE [acc EXCEPT !.removed_steam = Append(@, <<app.name, app_id>>),
                         !.fs = RemoveGridImage(@, app)]

\* the branch of the loop for a command holding an Epic protocol URL
ProcessEpicApp(acc, app, cmd, installed_epic) ==
    IF Find(cmd, EPIC_PREFIX) = 0 THEN Keep(acc, app)
    ELSE LET app_name == EpicAppNameOf(cmd)
         IN  IF app_name \in DOMAIN installed_epic
             THEN [acc EXCEPT !.updated_apps = Append(@, app),
                              !.existing_epic_apps = @ \cup {app_name}]
             ELSE [acc EXCEPT !.removed_epic = Append(@, <<app.name, app_name>>),
                              !.fs = RemoveGridImage(@, app)]

\* the branch of the loop for a command that runs a shortcut of the
\* shortcuts folder
ProcessShortcutApp(acc, app, shortcut_path, sfn, installed_epic, installed_xbox) ==
    LET target == _read_shortcut_target_win(acc.fs, shortcut_path)
    IN  IF target # None /\ Contains(target, EPIC_SCHEME)
        THEN IF Find(target, EPIC_PREFIX) = 0 THEN Keep(acc, app)
             ELSE LET app_name == EpicAppNameOf(target)
                  IN  IF app_name \in DOMAIN installed_epic
                      THEN [acc EXCEPT !.updated_apps = Append(@, app),
                                       !.existing_epic_apps = @ \cup {app_name}]
                      ELSE [acc EXCEPT
                              !.removed_epic = Append(@, <<app.name, app_name>>),
                              !.fs = RemoveGridImage(
                                       _delete_shortcut_if_in_folder(@, shortcut_path, sfn),
                                       app)]
        ELSE IF target # None /\ Sep(os_name) \in { target[k] : k \in 1..Len(target) }
        THEN LET target_norm == NormPath(os_name, target)
             IN  IF target_norm \in DOMAIN installed_xbox \/ target \in DOMAIN installed_xbox
                 THEN [acc EXCEPT
                         !.updated_apps = Append(@, app),
                         !.existing_xbox_cmds = @ \cup
                             {IF target_norm \in DOMAIN installed_xbox
                              THEN target_norm ELSE target}]
                 ELSE Keep(acc, app)
        ELSE Keep(acc, app)

\* the branches of the loop, given the stripped command of the entry and the
\* shortcut path extracted from it
ProcessBranch(acc, app, cmd, shortcut_path, installed_games, installed_epic, installed_xbox, sfn) ==
    LET cmd_norm == IF Sep(os_name) \in { cmd[k] : k \in 1..Len(cmd) }
                    THEN NormPath(os_name, cmd) ELSE cmd
    IN  IF shortcut_path # None /\ sfn # <<>> /\ StartsWith(shortcut_path, sfn)
        THEN ProcessShortcutApp(acc, app, shortcut_path, sfn, installed_epic, installed_xbox)
        ELSE IF StartsWith(cmd, STEAM_PREFIX)
        THEN ProcessSteamApp(acc, app, cmd, installed_games)
        ELSE IF Contains(cmd, EPIC_SCHEME)
        THEN ProcessEpicApp(acc, app, cmd, installed_epic)
        ELSE IF cmd_norm \in DOMAIN installed_xbox
        THEN [acc EXCEPT !.updated_apps = Append(@, app),
                         !.existing_xbox_cmds = @ \cup {cmd_norm}]
        ELSE IF cmd \in DOMAIN installed_xbox
        THEN [acc EXCEPT !.updated_apps = Append(@, app),
                         !.existing_xbox_cmds = @ \cup {cmd}]
        ELSE Keep(acc, app)

\* one iteration of the loop over the configured apps
ProcessApp(acc, app, installed_games, installed_epic, installed_xbox, sfn) ==
    ProcessBranch(acc, app, Strip(app.cmd),
                  IF sfn # <<>> THEN _extract_shortcut_path_from_cmd(Strip(app.cmd))
                  ELSE None,
                  installed_games, installed_epic, installed_xbox, sfn)

RECURSIVE ProcessFrom(_, _, _, _, _, _, _)
ProcessFrom(acc, apps, k, installed_games, installed_epic, installed_xbox, sfn) ==
    IF k > Len(apps) THEN acc
    ELSE ProcessFrom(
           ProcessApp(acc, apps[k], installed_games, installed_epic, installed_xbox, sfn),
           apps, k + 1, installed_games, installed_epic, installed_xbox, sfn)

\* process_existing_apps: the kept apps, the removed titles, the identities
\* found configured, and the files after the removals it made
\* (custom commands take the same branch as unowned ones: both are kept)
process_existing_apps(sunshine_config, installed_games, installed_epic, installed_xbox, shortcuts, fs) ==
    LET sfn == IF shortcuts # <<>> THEN NormPath(os_name, shortcuts) ELSE <<>>
    IN  ProcessFrom([updated_apps |-> <<>>, removed_steam |-> <<>>,
                     removed_epic |-> <<>>, existing_steam_apps |-> {},
                     existing_epic_apps |-> {}, existing_xbox_cmds |-> {},
                     fs |-> fs],
                    sunshine_config.apps, 1,
                    installed_games, installed_epic, installed_xbox, sfn)

(***************************************************************************)
(* Artwork Resolver.  net tells what the network gives in this run: key is *)
(* whether a SteamGridDB API key is configured, search / grid whether the  *)
(* SteamGridDB search and grid requests yield a result and a valid image,  *)
(* cdn whether the Steam CDN yields a valid image.                         *)
(***************************************************************************)
NetCases ==
    { [key |-> FALSE, search |-> FALSE, grid |-> FALSE, cdn |-> FALSE],
      [key |-> FALSE, search |-> FALSE, grid |-> FALSE, cdn |-> TRUE],
      [key |-> TRUE, search |-> TRUE, grid |-> TRUE, cdn |-> TRUE],
      [key |-> TRUE, search |-> TRUE, grid |-> FALSE, cdn |-> TRUE] }

GridPath(app_id) == PathJoin(os_name, GridsFolder(os_name), app_id \o DOT_PNG)

\* fetch_grid_from_steamgriddb: the path written, or None, and the files.
\* The content of an artwork file is the id of the title it shows.
fetch_grid_from_steamgriddb(fs, app_id, net) ==
    IF net.grid
    THEN [path |-> GridPath(app_id), fs |-> WriteFile(fs, GridPath(app_id), app_id)]
    ELSE [path |-> None, fs |-> fs]

\* a faulty variant of fetch_grid_from_steam_cdn: the path is returned also
\* when no image was saved
CdnPathAlways(fs, app_id, net) == [path |-> GridPath(app_id), fs |-> fs]

\* fetch_grid_from_steam_cdn
fetch_grid_from_steam_cdn(fs, app_id, net) ==
    IF net.cdn
    THEN [path |-> GridPath(app_id), fs |-> WriteFile(fs, GridPath(app_id), app_id)]
    ELSE [path |-> None, fs |-> fs]

\* fetch_grid
fetch_grid(fs, app_id, net) ==
    LET g == fetch_grid_from_steamgriddb(fs, app_id, net)
    IN  IF net.key /\ g.path # None THEN g
        ELSE fetch_grid_from_steam_cdn(fs, app_id, net)

\* what the SteamGridDB search answers for a title's name: the Epic title is
\* the game that Steam sells as app 100, the Xbox title is known to
\* SteamGridDB under id 7, nothing else is found
SearchAnswer(game_name) ==
    IF game_name \in {"Alpha", "Alpha RE"} THEN Id100
    ELSE IF game_name = "Gamma" THEN <<"7">>
    ELSE None

\* _steamgriddb_search_steam_id
_steamgriddb_search_steam_id(game_name, net) ==
    IF ~net.key \/ ~net.search THEN None ELSE SearchAnswer(game_name)

\* shutil.move(path, dest)
MoveFile(fs, path, dest) ==
    LET data == fs[path]
        without == [q \in (DOMAIN fs) \ {path} |-> fs[q]]
    IN  WriteFile(without, dest, data)

\* the tail of fetch_grid_by_name: the file a tier wrote is moved to the
\* title's own file name
KeepUnderOwnName(got, dest) ==
    IF got.path = None THEN [path |-> None, fs |-> got.fs]
    ELSE IF dest # got.path /\ Exists(got.fs, got.path)
    THEN [path |-> dest, fs |-> MoveFile(got.fs, got.path, dest)]
    ELSE got

FirstTier(g, c) == IF g.path # None THEN g ELSE c

\* fetch_grid_by_name
fetch_grid_by_name(fs, game_name, net, file_safe_id) ==
    LET steam_id == _steamgriddb_search_steam_id(game_name, net)
    IN  IF steam_id = None THEN [path |-> None, fs |-> fs]
        ELSE KeepUnderOwnName(
               FirstTier(fetch_grid_from_steamgriddb(fs, steam_id, net),
                         fetch_grid_from_steam_cdn(fs, steam_id, net)),
               GridPath(file_safe_id))

(***************************************************************************)
(* Launch-Command Builder and the add_* functions                          *)
(***************************************************************************)
\* the command add_new_games stores for a Steam title; raises is TRUE when
\* starting flatpak fails, which makes the loop skip the title
SteamLaunch(app_id) ==
    IF os_name = "nt" THEN [raises |-> FALSE, cmd |-> STEAM_PREFIX \o app_id]
    ELSE IF ~platform.flatpak_present THEN [raises |-> TRUE, cmd |-> <<>>]
    ELSE IF Contains(platform.flatpak_out, FLATPAK_STEAM_APP)
    THEN [raises |-> FALSE, cmd |-> FLATPAK_RUN \o STEAM_PREFIX \o app_id]
    ELSE [raises |-> FALSE, cmd |-> STEAM_BIN \o STEAM_PREFIX \o app_id]

RECURSIVE FetchAll(_, _, _)
FetchAll(fs, ids, net) ==
    IF ids = <<>> THEN fs
    ELSE FetchAll(fetch_grid(fs, Head(ids), net).fs, Tail(ids), net)

RECURSIVE SteamEntries(_, _, _, _)
SteamEntries(fs0, ids, installed_games, net) ==
    IF ids = <<>> THEN <<>>
    ELSE LET app_id == Head(ids)
             grid_path == fetch_grid(fs0, app_id, net).path
             launch == SteamLaunch(app_id)
             rest == SteamEntries(fs0, Tail(ids), installed_games, net)
         IN  IF launch.raises THEN rest
             ELSE <<NewApp(installed_games[app_id], launch.cmd, grid_path)>> \o rest

\* add_new_games: every download is submitted to the pool; the entries are
\* built in the order in which the downloads complete (ids)
add_new_games(fs, ids, installed_games, net) ==
    [new_apps |-> SteamEntries(fs, ids, installed_games, net),
     fs |-> FetchAll(fs, ids, net)]

\* _epic_launch_cmd
_epic_launch_cmd(app_name) ==
    LET url == EPIC_PREFIX \o app_name \o EPIC_SUFFIX
    IN  IF os_name = "nt" THEN START_QUOTED \o url \o <<"\"">> ELSE url

\* "".join(c if c.isalnum() or c in "._-" else "_" for c in app_name)
SafeChars(app_name) ==
    [k \in 1..Len(app_name) |->
        IF IsAlnum(app_name[k]) \/ app_name[k] \in {".", "_", "-"}
        THEN app_name[k] ELSE "_"]

\* the shortcut step shared by the three add functions: the command to
\* store and the files, given the direct command to fall back to
ViaShortcut(fs, shortcuts, safe_id, target, direct_cmd, lnk_ok) ==
    LET shortcut_path == PathJoin(os_name, shortcuts, safe_id \o DOT_LNK)
    IN  IF lnk_ok
        THEN [cmd |-> _shortcut_launch_cmd(shortcut_path),
              fs |-> _create_shortcut_win(fs, shortcut_path, target)]
        ELSE [cmd |-> direct_cmd, fs |-> fs]

\* what one iteration of an add loop appends.  acc holds the entries added
\* so far in this run and the files; built is the command to store and the
\* files after the shortcut step.
Emit(acc, name, image_path, built) ==
    [new_apps |-> Append(acc.new_apps, NewApp(name, built.cmd, image_path)),
     fs |-> built.fs]

\* the body of the add loops after the artwork was asked for
AddEntry(acc, name, art, use_shortcut, shortcuts, safe_id, target, direct_cmd, lnk_ok) ==
    Emit(acc, name, art.path,
         IF use_shortcut
         THEN ViaShortcut(art.fs, shortcuts, safe_id, target, direct_cmd, lnk_ok)
         ELSE [cmd |-> direct_cmd, fs |-> art.fs])

\* add_epic_games
RECURSIVE add_epic_games(_, _, _, _, _, _)
add_epic_games(acc, ids, installed_epic, net, shortcuts, lnk_ok) ==
    IF ids = <<>> THEN acc
    ELSE LET app_name == Head(ids)
             game_name == installed_epic[app_name]
             safe_id == EPIC_ID_TAG \o SafeChars(app_name)
             epic_url == EPIC_PREFIX \o app_name \o EPIC_SUFFIX
         IN  add_epic_games(
               AddEntry(acc, game_name,
                        fetch_grid_by_name(acc.fs, game_name, net, safe_id),
                        shortcuts # <<>> /\ os_name = "nt",
                        shortcuts, safe_id, epic_url, _epic_launch_cmd(app_name), lnk_ok),
               Tail(ids), installed_epic, net, shortcuts, lnk_ok)

\* str(abs(hash(s)))[:12] under the hash function h of this process
HashId(h, s) == h[s]

\* add_xbox_games
RECURSIVE add_xbox_games(_, _, _, _, _, _, _)
add_xbox_games(acc, ids, installed_xbox, net, shortcuts, lnk_ok, h) ==
    IF ids = <<>> THEN acc
    ELSE LET exe_path == Head(ids)
             name == installed_xbox[exe_path]
             safe_id == XBOX_ID_TAG \o HashId(h, exe_path)
         IN  add_xbox_games(
               AddEntry(acc, name,
                        fetch_grid_by_name(acc.fs, name, net, safe_id),
                        shortcuts # <<>> /\ os_name = "nt" /\ IsExeFile(os_name, exe_path),
                        shortcuts, safe_id, exe_path, exe_path, lnk_ok),
               Tail(ids), installed_xbox, net, shortcuts, lnk_ok, h)

HasSep(s) == Sep(os_name) \in { s[k] : k \in 1..Len(s) }

\* add_custom_games
RECURSIVE add_custom_games(_, _, _, _, _, _, _)
add_custom_games(acc, custom_list, existing_cmds, net, shortcuts, lnk_ok, h) ==
    IF custom_list = <<>> THEN acc
    ELSE LET g == Head(custom_list)
             exe_cmd == Strip(g.cmd)
             safe_id == CUSTOM_ID_TAG \o HashId(h, exe_cmd)
         IN  add_custom_games(
               IF exe_cmd = <<>> \/ exe_cmd \in existing_cmds THEN acc
               ELSE AddEntry(acc, g.name,
                             IF g.image_path # <<>>
                             THEN [path |-> g.image_path, fs |-> acc.fs]
                             ELSE fetch_grid_by_name(acc.fs, g.name, net, safe_id),
                             shortcuts # <<>> /\ os_name = "nt" /\ HasSep(exe_cmd)
                                /\ IsExeFile(os_name, exe_cmd),
                             shortcuts, safe_id, exe_cmd, exe_cmd, lnk_ok),
               Tail(custom_list), existing_cmds, net, shortcuts, lnk_ok, h)

(***************************************************************************)
(* Reset                                                                   *)
(***************************************************************************)
\* _app of get_stock_default_apps for the Steam entry, which has prep-cmd
StockSteamApp(open_cmd, close_cmd) ==
    [name |-> "Steam Big Picture", cmd |-> <<>>, output |-> "", detached |-> open_cmd,
     elevated |-> "false", hidden |-> "true", wait_all |-> "true",
     exit_timeout |-> "5", image_path |-> <<>>,
     prep_cmd |-> <<[do |-> close_cmd, undo |-> open_cmd, elevated |-> FALSE]>>]

\* the entries without prep-cmd keep detached empty
StockPlainApp(name) == NewApp(name, <<>>, <<>>)

\* get_stock_default_apps
get_stock_default_apps(host) ==
    LET h0 == Lower(Strip(IF host = <<>> THEN SUNSHINE ELSE host))
        h == IF h0 \in {SUNSHINE, APOLLO} THEN h0 ELSE SUNSHINE
        desktop == StockPlainApp("Desktop")
        steam == IF os_name = "nt"
                 THEN StockSteamApp("steam://open/bigpicture", "steam://close/bigpicture")
                 ELSE IF platform.sys = "darwin"
                 THEN StockSteamApp("open steam://open/bigpicture",
                                    "open steam://close/bigpicture")
                 ELSE StockSteamApp("steam steam://open/bigpicture",
                                    "steam steam://close/bigpicture")
    IN  IF h = APOLLO THEN <<desktop, steam, StockPlainApp("Virtual Display")>>
        ELSE <<desktop, steam>>

\* the first loop of remove_all_apps_from_config: the thumbnails of the
\* configured apps that live in the grids folder
RECURSIVE RemoveAppGrids(_, _)
RemoveAppGrids(fs, apps) ==
    IF apps = <<>> THEN fs
    ELSE LET grid_path == Head(apps).image_path
             inside == AbsPath(os_name, DirName(os_name, grid_path))
                         = AbsPath(os_name, GridsFolder(os_name))
         IN  RemoveAppGrids(
               IF grid_path # <<>> /\ Exists(fs, grid_path) /\ inside
               THEN RemoveFile(fs, grid_path) ELSE fs,
               Tail(apps))

\* removing every listed file of a folder whose lower-cased name ends in ext
RECURSIVE RemoveEach(_, _)
RemoveEach(fs, paths) ==
    IF paths = {} THEN fs
    ELSE LET p == CHOOSE q \in paths : TRUE
         IN  RemoveEach(RemoveFile(fs, p), paths \ {p})

RemoveByExtension(fs, folder, ext) ==
    RemoveEach(fs, { p \in ListDir(fs, folder) : EndsWith(Lower(p), ext) })

\* a faulty variant of RemoveOrphanPngs: the second loop is missing
LeaveOrphanPngs(fs) == fs

\* the second loop: any other PNG in the grids folder
RemoveOrphanPngs(fs) == RemoveByExtension(fs, GridsFolder(os_name), DOT_PNG)

\* the third loop: every .lnk in the shortcuts folder
RemoveShortcuts(fs, shortcuts) ==
    IF shortcuts = <<>> THEN fs ELSE RemoveByExtension(fs, shortcuts, DOT_LNK)

\* a faulty variant of ResetApps: the stock apps are appended to the old list
KeepPriorApps(old_apps, default_apps) == old_apps \o default_apps

\* the apps list that reset stores
ResetApps(old_apps, default_apps) == default_apps

\* remove_all_apps_from_config
remove_all_apps_from_config(file, bak, ubak, fs, host, shortcuts, io) ==
    LET loaded == get_sunshine_config(file)
        config == loaded.config
        fs1 == RemoveAppGrids(fs, config.apps)
        fs2 == RemoveOrphanPngs(fs1)
        fs3 == RemoveShortcuts(fs2, shortcuts)
        default_apps == get_stock_default_apps(host)
        saved == save_sunshine_config(file, bak, ubak,
                    WithApps(config, ResetApps(config.apps, default_apps)), io)
    IN  IF ~loaded.ok
        THEN [ok |-> FALSE, file |-> file, backup |-> bak, user_backup |-> ubak, fs |-> fs]
        ELSE [ok |-> saved.ok, file |-> saved.file, backup |-> saved.backup,
              user_backup |-> saved.user_backup, fs |-> fs3]

\* the HOST handling of main before it calls remove_all_apps_from_config
MainHost(raw) ==
    LET host_name == Strip(raw)
    IN  IF Lower(host_name) \in {SUNSHINE, APOLLO} THEN Lower(host_name) ELSE SUNSHINE

(***************************************************************************)
(* What the source adapters can return in a run                            *)
(***************************************************************************)
MaxRuns == 2

NoTitles == [x \in {} |-> ""]

\* what get_game_name returns for the app ids that libraryfolders.vdf lists:
\* app id -> name, "" when the lookup gave no name.  App 100 is renamed
\* upstream from "Alpha" to "Alpha DX".
Alpha100 == (Id100 :> "Alpha")
AlphaDX100 == (Id100 :> "Alpha DX")
Beta200 == (Id200 :> "Beta")
Unnamed100 == (Id100 :> "")

\* load_installed_games: the listed app ids whose lookup gave a name, with
\* their names
load_installed_games(lookups) ==
    [app_id \in { i \in DOMAIN lookups : lookups[i] # "" } |-> lookups[app_id]]

\* load_installed_epic_games: AppName -> DisplayName; the title is renamed
\* upstream from "Alpha" to "Alpha RE"
EpicTitles == (EpicApp :> "Alpha")
EpicTitlesRenamed == (EpicApp :> "Alpha RE")

\* load_installed_xbox_games: normalized exe path -> display name
XboxTitles == (XboxExe :> "Gamma")

\* load_custom_games
CustomList(os) == <<[name |-> "Delta", cmd |-> CustomExe(os), image_path |-> <<>>]>>

Library(steam, epic, xbox, custom) ==
    [steam |-> load_installed_games(steam), listed |-> DOMAIN steam,
     epic |-> epic, xbox |-> xbox, custom |-> custom]

\* what the four adapters can return in one run.  Epic manifests and Xbox
\* folders exist on Windows only.
Libraries(os) ==
    { Library(NoTitles, NoTitles, NoTitles, <<>>),
      Library(Alpha100, NoTitles, NoTitles, <<>>),
      Library(Unnamed100, NoTitles, NoTitles, <<>>),
      Library(NoTitles, NoTitles, NoTitles, CustomList(os) \o CustomList(os)),
      Library(Beta200, NoTitles, NoTitles, CustomList(os)),
      Library(AlphaDX100 @@ Beta200, NoTitles, NoTitles, <<>>),
      Library(Alpha100, NoTitles, NoTitles, CustomList(os)) }
    \cup
    ( IF os # "nt" THEN {}
      ELSE { Library(NoTitles, EpicTitles, NoTitles, <<>>),
             Library(NoTitles, NoTitles, XboxTitles, CustomList(os)),
             Library(Alpha100, EpicTitlesRenamed, XboxTitles, <<>>) } )

\* the identities a run discovered, per source
IdsOf(lib) ==
    [steam |-> DOMAIN lib.steam, listed |-> lib.listed,
     epic |-> DOMAIN lib.epic, xbox |-> DOMAIN lib.xbox,
     custom |-> { lib.custom[k].cmd : k \in 1..Len(lib.custom) }]

NoIds == [steam |-> {}, listed |-> {}, epic |-> {}, xbox |-> {}, custom |-> {}]

\* the orders in which a set can be iterated
RECURSIVE Orders(_)
Orders(S) ==
    IF S = {} THEN {<<>>}
    ELSE UNION { { <<x>> \o t : t \in Orders(S \ {x}) } : x \in S }

\* the 12-digit prefixes that hash() can give in a process
HashValues == {<<"4","1">>, <<"4","2">>}

(***************************************************************************)
(* Initial state                                                           *)
(***************************************************************************)
ManualApp(os) ==
    [NewApp("Notes", <<"n","o","t","e","p","a","d">>, UserPic(os)) EXCEPT !.hidden = "false"]

OldSteamApp(os) == NewApp("Alpha", STEAM_PREFIX \o Id100, OldPic(os))

UserLnkApp == NewApp("Alpha", UserLnk, <<>>)

SiblingLnkApp == NewApp("Omega", SiblingLnk, <<>>)

MissingFile == [kind |-> "missing", doc |-> NoDoc]

\* files of the artwork directory that the tool did not write
StrayFiles(os) ==
    (OrphanJpg(os) :> <<"u">>) @@ (OrphanPng(os) :> <<"u">>) @@ (ReadOnlyPng(os) :> <<"u">>)

\* the configuration files and the files around them that a run can meet
StartingPoints(os, shortcuts) ==
    { [file |-> MissingFile, fs |-> NoTitles],
      [file |-> [kind |-> "invalid_json", doc |-> NoDoc], fs |-> NoTitles],
      [file |-> [kind |-> "not_dict", doc |-> NoDoc], fs |-> NoTitles],
      [file |-> [kind |-> "apps_null", doc |-> NoDoc], fs |-> NoTitles],
      [file |-> FileOf([extra |-> "X"]), fs |-> NoTitles],
      [file |-> FileOf([env |-> "E", extra |-> "X",
                        apps |-> <<OldSteamApp(os), ManualApp(os)>>]),
       fs |-> (UserPic(os) :> <<"u">>) @@ (OldPic(os) :> <<"u">>) @@ StrayFiles(os)] }
    \cup
    ( IF shortcuts = <<>> THEN {}
      ELSE { [file |-> FileOf([env |-> "", apps |-> <<UserLnkApp, SiblingLnkApp>>]),
              fs |-> (UserLnk :> (EPIC_PREFIX \o EpicApp \o EPIC_SUFFIX))
                       @@ (SiblingLnk :> (EPIC_PREFIX \o EpicApp \o EPIC_SUFFIX))] } )

\* fetch_grid not called
NoResolve == [pc |-> "idle", api_key |-> None, replies |-> <<>>, tried |-> <<>>, path |-> None]

\* load_installed_games not called: no task submitted, nothing cached
NoPool == [ids |-> <<>>, pc |-> <<>>, cache |-> {}, fetches |-> <<>>]

\* get_game_name not called
NoLookup ==
    [pc |-> "idle", attempt |-> 0, requests |-> 0, slept |-> <<>>, result |-> None,
     replies |-> <<>>, json_error_is_request_error |-> FALSE]

NoRun ==
    [mode |-> "none", dry_run |-> FALSE, result |-> "none", host |-> <<>>, io |-> "none",
     artwork |-> "not_asked",
     ids |-> NoIds, repeat |-> FALSE,
     new_games |-> {}, new_epic |-> {}, new_xbox |-> {}, new_custom |-> <<>>,
     removed_steam |-> <<>>, removed_epic |-> <<>>, kept_steam |-> {}]

Init ==
    /\ platform \in Platforms
    /\ shortcuts_folder \in ShortcutsFolders(platform.os)
    /\ \E start \in StartingPoints(platform.os, shortcuts_folder) :
          /\ apps_json = start.file
          /\ files = start.fs
    /\ backup = MissingFile
    /\ user_backup = MissingFile
    /\ last = NoRun
    /\ runs = 0
    /\ lookup = NoLookup
    /\ pool = NoPool
    /\ resolve = NoResolve

(***************************************************************************)
(* main: normal reconciliation and dry run                                 *)
(***************************************************************************)
CmdsOf(apps) == { Strip(apps[k].cmd) : k \in 1..Len(apps) }

\* existing_cmds of main: the commands of the kept apps and their
\* normalized forms
ExistingCmds(updated_apps) ==
    CmdsOf(updated_apps) \cup
        { NormPath(os_name, c) : c \in { d \in CmdsOf(updated_apps) : HasSep(d) } }

IsNewCustom(g, existing_cmds) ==
    /\ Strip(g.cmd) \notin existing_cmds
    /\ NormPath(os_name, Strip(g.cmd)) \notin existing_cmds

\* new_custom of main
NewCustom(custom_list, existing_cmds) ==
    LET Test(g) == IsNewCustom(g, existing_cmds)
    IN  SelectSeq(custom_list, Test)

\* a faulty variant of FinalApps: the added entries come first
NewFirst(updated_apps, new_apps) == new_apps \o updated_apps

\* updated_apps.extend(...): the list main stores, the kept entries followed
\* by the entries the run added
FinalApps(updated_apps, new_apps) == updated_apps \o new_apps

\* a faulty variant of GoesOnToWrite: the dry-run flag is not consulted
WritesOnDryRun(no_changes, dry_run) == ~no_changes

\* the early returns of main: whether this run goes on to add and save
GoesOnToWrite(no_changes, dry_run) == ~no_changes /\ ~dry_run

\* what main computes before its early returns, given the result p of
\* process_existing_apps
DiffFrom(lib, config, installed_epic, installed_xbox, p) ==
    LET existing_cmds == ExistingCmds(p.updated_apps)
    IN  [config |-> config,
         installed_games |-> lib.steam,
         installed_epic |-> installed_epic,
         installed_xbox |-> installed_xbox,
         p |-> p,
         new_games |-> (DOMAIN lib.steam) \ p.existing_steam_apps,
         new_epic |-> (DOMAIN installed_epic) \ p.existing_epic_apps,
         new_xbox |-> (DOMAIN installed_xbox) \ p.existing_xbox_cmds,
         existing_cmds |-> existing_cmds,
         new_custom |-> NewCustom(lib.custom, existing_cmds)]

\* the discovery and the diff of main; the Epic and Xbox adapters run on
\* Windows only
Diff(lib, config, fs) ==
    LET installed_epic == IF os_name = "nt" THEN lib.epic ELSE NoTitles
        installed_xbox == IF os_name = "nt" THEN lib.xbox ELSE NoTitles
    IN  DiffFrom(lib, config, installed_epic, installed_xbox,
                 process_existing_apps(config, lib.steam, installed_epic,
                                       installed_xbox, shortcuts_folder, fs))

NoChanges(d) ==
    /\ d.p.removed_steam = <<>> /\ d.p.removed_epic = <<>>
    /\ d.new_games = {} /\ d.new_epic = {} /\ d.new_xbox = {} /\ d.new_custom = <<>>

\* the record of a run that got past the load
Report(mode, result, lib, d) ==
    [mode |-> mode, dry_run |-> mode = "dry", result |-> result, host |-> <<>>, io |-> "none",
     artwork |-> "not_asked",
     ids |-> IdsOf(lib),
     repeat |-> last.mode = "normal" /\ last.result \in {"success", "no_changes"}
                  /\ last.ids = IdsOf(lib),
     new_games |-> d.new_games, new_epic |-> d.new_epic, new_xbox |-> d.new_xbox,
     new_custom |-> [k \in 1..Len(d.new_custom) |-> d.new_custom[k].cmd],
     removed_steam |-> d.p.removed_steam, removed_epic |-> d.p.removed_epic,
     kept_steam |-> d.p.existing_steam_apps]

\* the commands that get a hashed identity in a run
HashInputs(d, lib) ==
    d.new_xbox \cup
        ({ Strip(lib.custom[k].cmd) : k \in 1..Len(lib.custom) } \ d.existing_cmds)

\* what the artwork providers gave to a run that adds the titles of d:
\* "down" when no provider yields an image for any title
AskedOf(d, net) ==
    IF d.new_games = {} /\ d.new_epic = {} /\ d.new_xbox = {} /\ d.new_custom = <<>>
    THEN "not_asked"
    ELSE IF ~net.cdn /\ ~(net.key /\ net.grid) THEN "down"
    ELSE "some"

\* a faulty variant of Interrupted: the document was stored before the run
\* was interrupted
SavedEarly(file, bak, ubak, config) ==
    [ok |-> FALSE, file |-> FileOf(config), backup |-> bak, user_backup |-> ubak]

\* a run that is interrupted (KeyboardInterrupt, or killed) after its adds:
\* the save, the last statement of main, is never reached
Interrupted(file, bak, ubak, config) ==
    [ok |-> FALSE, file |-> file, backup |-> bak, user_backup |-> ubak]

\* how main ends after its adds: "interrupted", or one of the outcomes of
\* the save
EndOfMain(file, bak, ubak, config, io) ==
    IF io = "interrupted" THEN Interrupted(file, bak, ubak, config)
    ELSE save_sunshine_config(file, bak, ubak, config, io)

\* the save that ends main, with the entries a that the run added
SaveAndReport(mode, lib, d, net, a) ==
    \E io \in SaveOutcomesFor(apps_json) \cup {"interrupted"} :
       LET saved == EndOfMain(apps_json, backup, user_backup,
                        WithApps(d.config, FinalApps(d.p.updated_apps, a.new_apps)), io)
       IN  /\ last' = [Report(mode, IF saved.ok THEN "success" ELSE "failure", lib, d)
                         EXCEPT !.io = io, !.artwork = AskedOf(d, net)]
           /\ apps_json' = saved.file
           /\ backup' = saved.backup
           /\ user_backup' = saved.user_backup
           /\ files' = a.fs

\* the Xbox and custom adds, under the hash() of the process
AddHashed(mode, lib, d, net, lnk_ok, a) ==
    \E h \in [HashInputs(d, lib) -> HashValues] :
       SaveAndReport(mode, lib, d, net,
          add_custom_games(
             add_xbox_games(a, CHOOSE o \in Orders(d.new_xbox) : TRUE,
                            d.installed_xbox, net, shortcuts_folder, lnk_ok, h),
             lib.custom, d.existing_cmds, net, shortcuts_folder, lnk_ok, h))

\* the Epic adds; lnk_ok tells whether shortcuts can be created
AddEpic(mode, lib, d, net, a) ==
    \E lnk_ok \in IF shortcuts_folder = <<>> THEN {TRUE} ELSE BOOLEAN :
       AddHashed(mode, lib, d, net, lnk_ok,
          add_epic_games(a, CHOOSE o \in Orders(d.new_epic) : TRUE,
                         d.installed_epic, net, shortcuts_folder, lnk_ok))

\* the adds of main: the iteration order of the new Steam ids and what the
\* network gives are inputs of the run
AddAndSave(mode, lib, d) ==
    \E steam_order \in Orders(d.new_games) :
    \E net \in NetCases :
       AddEpic(mode, lib, d, net,
               add_new_games(d.p.fs, steam_order, d.installed_games, net))

\* main after the load, with the diff d
Reconcile(dry_run, mode, lib, d) ==
    IF GoesOnToWrite(NoChanges(d), dry_run)
    THEN AddAndSave(mode, lib, d)
    ELSE /\ last' = Report(mode, IF NoChanges(d) THEN "no_changes" ELSE "dry_run", lib, d)
         /\ files' = d.p.fs
         /\ UNCHANGED <<apps_json, backup, user_backup>>

\* main: lib is what the adapters discover in this run
Main(dry_run) ==
    /\ runs < MaxRuns
    /\ runs' = runs + 1
    /\ UNCHANGED <<platform, shortcuts_folder, lookup, pool, resolve>>
    /\ \E lib \in Libraries(os_name) :
         LET loaded == get_sunshine_config(apps_json)
             mode == IF dry_run THEN "dry" ELSE "normal"
         IN  IF ~loaded.ok
             THEN /\ last' = [NoRun EXCEPT !.mode = mode, !.dry_run = dry_run,
                                           !.result = "failure"]
                  /\ UNCHANGED <<apps_json, backup, user_backup, files>>
             ELSE Reconcile(dry_run, mode, lib, Diff(lib, loaded.config, files))

Run == Main(FALSE)

DryRun == Main(TRUE)

(***************************************************************************)
(* main --remove-games                                                     *)
(***************************************************************************)
Hosts == { SUNSHINE, <<" ","A","p","o","l","l","o"," ">>,
           <<"m","o","o","n","l","i","g","h","t">> }

\* what a reset run leaves, given the result r of remove_all_apps_from_config
ResetOutcome(dry_run, host, io, r) ==
    /\ last' = [NoRun EXCEPT !.mode = "reset", !.dry_run = dry_run,
                             !.result = IF r.ok THEN "success" ELSE "failure",
                             !.host = host, !.io = io]
    /\ apps_json' = r.file
    /\ backup' = r.backup
    /\ user_backup' = r.user_backup
    /\ files' = r.fs

\* main with --remove-games: the branch is taken before args.dry_run is
\* looked at
RemoveGames(dry_run) ==
    /\ runs < MaxRuns
    /\ runs' = runs + 1
    /\ UNCHANGED <<platform, shortcuts_folder, lookup, pool, resolve>>
    /\ \E host \in Hosts :
       \E io \in SaveOutcomesFor(apps_json) :
          ResetOutcome(dry_run, host, io, remove_all_apps_from_config(apps_json, backup, user_backup, files,
                                MainHost(host), shortcuts_folder, io))

Reset == RemoveGames(FALSE)

\* --remove-games together with --dry-run, as the GUI passes them
DryReset == RemoveGames(TRUE)

Next == Run \/ DryRun \/ Reset \/ DryReset

Spec == Init /\ [][Next]_vars

(***************************************************************************)
(* get_game_name: one execution of the function body, step by step.        *)
(* replies[k] is what the k-th request to the Steam store would meet:      *)
(* "name" a response with the success flag and a name, "no_data" a         *)
(* response without them, "timeout" requests.exceptions.Timeout,           *)
(* "request_error" another RequestException (raise_for_status included),   *)
(* "bad_json" a body that response.json() cannot decode, "unexpected" any  *)
(* other exception.  The error of response.json() is a RequestException in *)
(* some versions of requests and a plain ValueError in others:             *)
(* json_error_is_request_error tells which the installation has.           *)
(* lru_cache answers a repeated call without entering the body.            *)
(***************************************************************************)
LookupReplies == {"name", "no_data", "timeout", "request_error", "bad_json", "unexpected"}

GameName == <<"A">>

\* a faulty variant of Delay: the same delay after every attempt
FlatDelay(attempt) == 1

\* time.sleep(2 ** attempt)
Delay(attempt) == 2 ^ attempt

LookupInit ==
    /\ platform = [os |-> "posix", sys |-> "darwin", flatpak_present |-> FALSE, flatpak_out |-> <<>>]
    /\ shortcuts_folder = <<>>
    /\ apps_json = MissingFile
    /\ files = NoTitles
    /\ backup = MissingFile
    /\ user_backup = MissingFile
    /\ last = NoRun
    /\ runs = 0
    /\ pool = NoPool
    /\ resolve = NoResolve
    /\ \E replies \in [1..3 -> LookupReplies], j \in BOOLEAN :
          lookup = [NoLookup EXCEPT !.pc = "request", !.replies = replies,
                                    !.json_error_is_request_error = j]

\* one pass of the body of the for loop up to the sleep: the request, and
\* the return or the except clause that its reply leads to
Attempt ==
    /\ lookup.pc = "request"
    /\ LET reply == lookup.replies[lookup.attempt + 1]
           caught == \/ reply \in {"timeout", "request_error"}
                     \/ reply = "bad_json" /\ lookup.json_error_is_request_error
       IN  lookup' =
             IF reply = "name"
             THEN [lookup EXCEPT !.requests = @ + 1, !.pc = "done", !.result = GameName]
             ELSE IF caught /\ lookup.attempt < 2
             THEN [lookup EXCEPT !.requests = @ + 1, !.pc = "sleep"]
             ELSE [lookup EXCEPT !.requests = @ + 1, !.pc = "done", !.result = None]
    /\ UNCHANGED <<platform, shortcuts_folder, apps_json, backup, user_backup, files, last, runs, pool, resolve>>

\* the sleep that ends a pass, and the next value of attempt
Backoff ==
    /\ lookup.pc = "sleep"
    /\ lookup' = [lookup EXCEPT !.slept = Append(@, Delay(lookup.attempt)),
                                !.attempt = @ + 1, !.pc = "request"]
    /\ UNCHANGED <<platform, shortcuts_folder, apps_json, backup, user_backup, files, last, runs, pool, resolve>>

LookupNext == Attempt \/ Backoff

\* the body runs on: a request ends by its timeout of 10 s, a sleep by its
\* delay
LookupSpec == LookupInit /\ [][LookupNext]_vars /\ WF_vars(LookupNext)

(***************************************************************************)
(* load_installed_games: the tasks of the ThreadPoolExecutor, one per app  *)
(* id listed under a library folder, each a call of get_game_name through  *)
(* its lru_cache wrapper.  The wrapper looks the id up in the cache, calls *)
(* the function on a miss and stores the result when the call returns;     *)
(* the call itself runs outside the cache's lock.  With at most 10 tasks   *)
(* every task has a worker of its own.                                     *)
(***************************************************************************)
MaxTasks == 3

PoolInit ==
    /\ platform = [os |-> "posix", sys |-> "darwin", flatpak_present |-> FALSE, flatpak_out |-> <<>>]
    /\ shortcuts_folder = <<>>
    /\ apps_json = MissingFile
    /\ files = NoTitles
    /\ backup = MissingFile
    /\ user_backup = MissingFile
    /\ last = NoRun
    /\ runs = 0
    /\ lookup = NoLookup
    /\ resolve = NoResolve
    /\ \E n \in 1..MaxTasks : \E ids \in [1..n -> {Id100, Id200}] :
          pool = [ids |-> ids, pc |-> [t \in 1..n |-> "submitted"], cache |-> {},
                  fetches |-> [t \in 1..n |-> 0]]

\* the wrapper's cache lookup in the worker of task t: a hit returns the
\* cached result, a miss enters get_game_name
CacheLookup(t) ==
    /\ pool.pc[t] = "submitted"
    /\ pool' = IF pool.ids[t] \in pool.cache
               THEN [pool EXCEPT !.pc[t] = "done"]
               ELSE [pool EXCEPT !.pc[t] = "in_body", !.fetches[t] = 1]
    /\ UNCHANGED <<platform, shortcuts_folder, apps_json, backup, user_backup, files, last, runs, lookup, resolve>>

\* get_game_name returns in the worker of task t and the wrapper stores the
\* result, a name or None, under the id
ReturnAndStore(t) ==
    /\ pool.pc[t] = "in_body"
    /\ pool' = [pool EXCEPT !.pc[t] = "done", !.cache = @ \cup {pool.ids[t]}]
    /\ UNCHANGED <<platform, shortcuts_folder, apps_json, backup, user_backup, files, last, runs, lookup, resolve>>

PoolNext == \E t \in 1..Len(pool.ids) : CacheLookup(t) \/ ReturnAndStore(t)

PoolSpec == PoolInit /\ [][PoolNext]_vars

(***************************************************************************)
(* fetch_grid for a Steam title: one execution, tier by tier.  replies     *)
(* tells what each tier would meet were it asked: "image" a payload of at  *)
(* least 500 bytes that decodes as an image, "small_image" a payload of    *)
(* fewer than 500 bytes that decodes as an image, "invalid" a payload that *)
(* fails Image.verify, "nothing" no grid data or a failed request (for the *)
(* grid provider after its retries).  tried lists the tiers asked so far,  *)
(* path the tier whose image was stored.                                   *)
(***************************************************************************)
GRID_PROVIDER == "steamgriddb"

\* STEAM_CDN_LIBRARY_URL, STEAM_CDN_LIBRARY_FALLBACK_URL, STEAM_CDN_HEADER_URL
CdnTiers == <<"library_600x900_2x", "library_600x900", "header">>

TierReplies == {"image", "small_image", "invalid", "nothing"}

ApiKeys == {None, <<" ">>, <<"k">>, <<" ", "k", " ">>}

\* a faulty variant of HasCredential: a blank key counts as a credential
AnyCredential(api_key) == api_key # None

\* api_key and api_key.strip()
HasCredential(api_key) == api_key # None /\ Strip(api_key) # None

ResolveInit ==
    /\ platform = [os |-> "posix", sys |-> "darwin", flatpak_present |-> FALSE, flatpak_out |-> <<>>]
    /\ shortcuts_folder = <<>>
    /\ apps_json = MissingFile
    /\ files = NoTitles
    /\ backup = MissingFile
    /\ user_backup = MissingFile
    /\ last = NoRun
    /\ runs = 0
    /\ lookup = NoLookup
    /\ pool = NoPool
    /\ \E api_key \in ApiKeys :
       \E replies \in [{GRID_PROVIDER} \cup {CdnTiers[k] : k \in 1..3} -> TierReplies] :
          resolve = [NoResolve EXCEPT !.pc = "fetch_grid", !.api_key = api_key,
                                     !.replies = replies]

\* fetch_grid up to its last line: the grid provider when the key is not
\* blank, and the return of its path
TryGridProvider ==
    /\ resolve.pc = "fetch_grid"
    /\ resolve' =
          IF ~HasCredential(resolve.api_key)
          THEN [resolve EXCEPT !.pc = CdnTiers[1]]
          ELSE IF resolve.replies[GRID_PROVIDER] \in {"image", "small_image"}
          THEN [resolve EXCEPT !.pc = "done", !.tried = Append(@, GRID_PROVIDER),
                               !.path = GRID_PROVIDER]
          ELSE [resolve EXCEPT !.pc = CdnTiers[1], !.tried = Append(@, GRID_PROVIDER)]
    /\ UNCHANGED <<platform, shortcuts_folder, apps_json, backup, user_backup, files, last, runs, lookup, pool>>

\* one pass of the loop of fetch_grid_from_steam_cdn: _download_steam_cdn_image
\* for the k-th URL, the return of its path, or the next URL
TryCdn(k) ==
    /\ resolve.pc = CdnTiers[k]
    /\ resolve' =
          IF resolve.replies[CdnTiers[k]] = "image"
          THEN [resolve EXCEPT !.pc = "done", !.tried = Append(@, CdnTiers[k]),
                               !.path = CdnTiers[k]]
          ELSE [resolve EXCEPT !.pc = IF k < 3 THEN CdnTiers[k + 1] ELSE "done",
                               !.tried = Append(@, CdnTiers[k])]
    /\ UNCHANGED <<platform, shortcuts_folder, apps_json, backup, user_backup, files, last, runs, lookup, pool>>

ResolveNext == TryGridProvider \/ \E k \in 1..3 : TryCdn(k)

ResolveSpec == ResolveInit /\ [][ResolveNext]_vars

(***************************************************************************)
(* Properties.  last holds what the latest run was given and reported; a   *)
(* step of Next is told from last'.mode.                                   *)
(***************************************************************************)
\* the apps list a configuration file holds
AppsOf(file) ==
    IF file.kind = "doc" /\ "apps" \in DOMAIN file.doc THEN file.doc.apps ELSE <<>>

EntrySet(file) == { AppsOf(file)[k] : k \in 1..Len(AppsOf(file)) }

NamesOf(file) == [k \in 1..Len(AppsOf(file)) |-> AppsOf(file)[k].name]

\* ownership inference of the spec, section 3: the Steam id and the Epic app
\* name that the shape of an entry's command gives, or None
InferredSteamId(app) ==
    IF StartsWith(Strip(app.cmd), STEAM_PREFIX) THEN SteamAppIdOf(Strip(app.cmd)) ELSE None

InferredEpicName(app) ==
    IF Contains(Strip(app.cmd), EPIC_SCHEME) /\ Find(Strip(app.cmd), EPIC_PREFIX) # 0
    THEN EpicAppNameOf(Strip(app.cmd)) ELSE None

SteamIdsIn(file) == { InferredSteamId(e) : e \in EntrySet(file) } \ {None}

SteamEntriesFor(file, id) ==
    { k \in 1..Len(AppsOf(file)) : InferredSteamId(AppsOf(file)[k]) = id }

RemovedSteamIds(r) == { r.removed_steam[k][2] : k \in DOMAIN r.removed_steam }

RemovedEpicNames(r) == { r.removed_epic[k][2] : k \in DOMAIN r.removed_epic }

InsideGrids(p) == DirName(os_name, p) = GridsFolder(os_name)

InsideShortcuts(p) ==
    shortcuts_folder # <<>> /\ DirName(os_name, p) = NormPath(os_name, shortcuts_folder)

IsPng(p) == EndsWith(Lower(p), DOT_PNG)

IsLnk(p) == EndsWith(Lower(p), DOT_LNK)

\* the file p is the same before and after the step
SameFile(p) ==
    /\ (p \in DOMAIN files) = (p \in DOMAIN files')
    /\ p \in DOMAIN files => files'[p] = files[p]

\* the names of the stock set of a host variant
StockNames(host) ==
    IF Lower(Strip(host)) = APOLLO
    THEN <<"Desktop", "Steam Big Picture", "Virtual Display">>
    ELSE <<"Desktop", "Steam Big Picture">>

\* C1: a normal run that directly follows a completed normal run, and is
\* given the same discovered identities by every source, finds nothing to add
\* and nothing to remove and leaves the configuration file and its backup as
\* they are
C1_Idempotence ==
    [][ (last'.mode = "normal" /\ last'.repeat) =>
            /\ last'.result = "no_changes"
            /\ apps_json' = apps_json
            /\ backup' = backup ]_vars

\* an entry whose command matches none of the source patterns of
\* process_existing_apps, xbox_found being the Xbox paths discovered in the run
MatchesNoPattern(app, xbox_found) ==
    LET cmd == Strip(app.cmd)
        lnk == IF shortcuts_folder = <<>> THEN None
               ELSE _extract_shortcut_path_from_cmd(cmd)
    IN  /\ ~StartsWith(cmd, STEAM_PREFIX)
        /\ ~Contains(cmd, EPIC_SCHEME)
        /\ ~(lnk # None /\ InsideShortcuts(lnk))
        /\ cmd \notin xbox_found
        /\ NormPath(os_name, cmd) \notin xbox_found

\* C2: every entry whose command matches none of the source patterns is in
\* the apps list, with every field as it was, after a normal run that does
\* not fail, whatever the sources discover in that run
C2_UnownedKept ==
    [][ (last'.mode = "normal" /\ last'.result # "failure") =>
            \A e \in EntrySet(apps_json) :
                MatchesNoPattern(e, last'.ids.xbox) => e \in EntrySet(apps_json') ]_vars

\* C3: a normal run deletes no artwork file that lies outside the artwork
\* directory, also when it removes the entry that refers to the file
C3_RemovalSparesOutsideArtwork ==
    [][ last'.mode = "normal" =>
            \A e \in EntrySet(apps_json) :
                (e.image_path # <<>> /\ Exists(files, e.image_path)
                   /\ ~InsideGrids(e.image_path))
                => Exists(files', e.image_path) ]_vars

\* the report r lists the additions and removals of the diff d
SameReport(r, d) ==
    /\ r.new_games = d.new_games
    /\ r.new_epic = d.new_epic
    /\ r.new_xbox = d.new_xbox
    /\ r.new_custom = [k \in 1..Len(d.new_custom) |-> d.new_custom[k].cmd]
    /\ r.removed_steam = d.p.removed_steam
    /\ r.removed_epic = d.p.removed_epic

\* C4: a dry run leaves the configuration file and its backup as they are,
\* and when it gets past the load it reports the additions and removals that
\* main computes for a normal run from the same files and the same discovery
C4_DryRunPurity ==
    [][ last'.mode = "dry" =>
            /\ apps_json' = apps_json
            /\ backup' = backup
            /\ last'.result # "failure" =>
                 \A lib \in Libraries(os_name) :
                     IdsOf(lib) = last'.ids =>
                         SameReport(last',
                                    Diff(lib, get_sunshine_config(apps_json).config, files)) ]_vars

\* C4 witness: a dry run reported two titles to add and one to remove
C4_Witness ==
    /\ last.mode = "dry" /\ last.result = "dry_run"
    /\ Cardinality(last.new_games) + Len(last.new_custom) = 2
    /\ Len(last.removed_steam) = 1
    /\ apps_json.kind = "doc"

\* C5: a dry run creates, overwrites and deletes no file of the artwork
\* directory and no file of the shortcuts directory
C5_DryRunLeavesFiles ==
    [][ last'.mode = "dry" =>
            \A p \in (DOMAIN files) \cup (DOMAIN files') :
                (InsideGrids(p) \/ InsideShortcuts(p)) => SameFile(p) ]_vars

ResetTargets(file, fs) ==
    { p \in DOMAIN fs :
        \/ InsideGrids(p) /\ \E e \in EntrySet(file) : e.image_path = p
        \/ InsideGrids(p) /\ IsPng(p)
        \/ InsideShortcuts(p) /\ IsLnk(p) }

\* C7: a reset that gets past the load deletes the artwork in the
\* artwork directory that a configured entry refers to, every PNG file of the
\* artwork directory and every .lnk file of the shortcuts directory, except
\* the files that the operating system refuses to delete; every other file
\* stays as it is
C7_ResetRemovesPngAndLnk ==
    [][ (last'.mode = "reset" /\ apps_json.kind \in {"missing", "doc"}) =>
            /\ \A p \in ResetTargets(apps_json, files) :
                   Deletable(p) => p \notin DOMAIN files'
            /\ \A p \in (DOMAIN files) \cup (DOMAIN files') :
                   (p \notin ResetTargets(apps_json, files) \/ ~Deletable(p))
                   => SameFile(p) ]_vars

\* C7 witness: a reset has saved; it deleted the stray PNG of the artwork
\* directory and left the JPEG and the undeletable PNG there
C7_Witness ==
    /\ last.mode = "reset" /\ last.result = "success"
    /\ ManualApp(os_name) \in EntrySet(backup)
    /\ ~Exists(files, OrphanPng(os_name))
    /\ Exists(files, OrphanJpg(os_name))
    /\ Exists(files, ReadOnlyPng(os_name))

\* C7, every file: when a reset has saved, the artwork directory holds no
\* file and the shortcuts directory holds no .lnk file
C7_ResetEmptiesArtworkDir ==
    (last.mode = "reset" /\ last.result = "success") =>
        /\ ListDir(files, GridsFolder(os_name)) = {}
        /\ \A p \in DOMAIN files : ~(InsideShortcuts(p) /\ IsLnk(p))

\* C8: a reset that meets a configuration file which is not JSON, or not a
\* JSON object, and that the file system lets save, completes and writes the
\* stock apps list
C8_ResetOnMalformed ==
    [][ (last'.mode = "reset" /\ last'.io = "ok"
           /\ apps_json.kind \in {"invalid_json", "not_dict"}) =>
            /\ last'.result = "success"
            /\ apps_json'.kind = "doc"
            /\ NamesOf(apps_json') = StockNames(last'.host) ]_vars

\* C9: a normal run that writes, with E the Steam ids configured before it
\* and D the Steam ids discovered, leaves exactly one Steam entry per id of
\* D, keeps the entries of E \cap D as they were, and reports D \ E as added
\* and E \ D as removed
C9_SteamDiff ==
    [][ (last'.mode = "normal" /\ last'.result = "success") =>
            LET E == SteamIdsIn(apps_json)
                D == last'.ids.steam
            IN  /\ SteamIdsIn(apps_json') = D
                /\ \A id \in D : Cardinality(SteamEntriesFor(apps_json', id)) = 1
                /\ \A e \in EntrySet(apps_json) :
                       InferredSteamId(e) \in E \cap D => e \in EntrySet(apps_json')
                /\ last'.new_games = D \ E
                /\ RemovedSteamIds(last') = E \ D ]_vars

\* the artwork file of the entry e is the same before and after the step
SameArtwork(e) == e.image_path # <<>> => SameFile(e.image_path)

C11_SaveAtomic ==
    [][ apps_json' = apps_json \/ apps_json'.kind = "doc" ]_vars

\* C12: whenever a run changes an existing configuration file, the prior
\* content is, complete, in the .backup sibling or in the user-folder backup;
\* when neither backup can be made the configuration file is not touched
C12_BackupBeforeWrite ==
    [][ /\ (apps_json.kind # "missing" /\ apps_json' # apps_json)
           => (backup' = apps_json \/ user_backup' = apps_json)
        /\ (apps_json.kind # "missing" /\ last'.io = "backup_denied")
           => (apps_json' = apps_json /\ last'.result = "failure") ]_vars

\* C12 witness: the .backup sibling was refused, the prior document with the
\* hand-made entry went to the user folder, and the file was then rewritten
C12_Witness ==
    /\ last.io = "backup_fallback" /\ last.result = "success"
    /\ ManualApp(os_name) \in EntrySet(user_backup)
    /\ backup = MissingFile
    /\ apps_json # user_backup

\* the run recorded in r stopped at the load of the configuration file
LoadFailed(r) == r.result = "failure" /\ r.io = "none"

\* a file that holds a document with an apps list
WellFormed(file) == file.kind = "doc" /\ "apps" \in DOMAIN file.doc

\* nothing of the configuration file, its backups and the other files changes
NothingWritten ==
    /\ apps_json' = apps_json
    /\ backup' = backup /\ user_backup' = user_backup
    /\ files' = files

\* C13, every malformed shape: a run that finds a file which is present and
\* is not a document with an apps list stops at the load and writes and
\* deletes nothing; a run that finds no file does not stop at the load
C13_LoadSemantics ==
    [][ last'.mode \in {"normal", "dry"} =>
            /\ apps_json.kind = "missing" => ~LoadFailed(last')
            /\ (apps_json.kind # "missing" /\ ~WellFormed(apps_json))
               => (LoadFailed(last') /\ NothingWritten) ]_vars

\* C13: a run that finds no file loads the empty document; a run that finds
\* text that is not JSON, JSON that is not an object, or an object whose apps
\* is null stops at the load and writes and deletes nothing; an object
\* without apps or env is loaded with apps = [] and env = "" filled in, and
\* the run goes on and saves the filled-in document
C13_LoadDefaults ==
    [][ last'.mode \in {"normal", "dry"} =>
            /\ apps_json.kind = "missing" =>
                  /\ ~LoadFailed(last')
                  /\ last'.result = "success" =>
                        (DOMAIN apps_json'.doc = {"env", "apps"} /\ apps_json'.doc.env = "")
            /\ apps_json.kind \notin {"missing", "doc"} =>
                  (LoadFailed(last') /\ NothingWritten)
            /\ apps_json.kind = "doc" =>
                  /\ ~LoadFailed(last')
                  /\ last'.result = "success" =>
                        /\ DOMAIN apps_json'.doc = DOMAIN apps_json.doc \cup {"env", "apps"}
                        /\ "env" \notin DOMAIN apps_json.doc => apps_json'.doc.env = "" ]_vars

\* C13 witness: a run loaded a document that had neither apps nor env, and
\* saved it with both
C13_Witness ==
    /\ last.mode = "normal" /\ last.result = "success" /\ last.io = "ok"
    /\ backup = FileOf([extra |-> "X"])
    /\ DOMAIN apps_json.doc = {"extra", "env", "apps"}
    /\ Len(apps_json.doc.apps) > 0

\* C14: every save that replaces a loaded document, in a normal run and in
\* a reset, writes each top-level key other than apps back with its value
C14_TopLevelKeysKept ==
    [][ (apps_json.kind = "doc" /\ apps_json'.kind = "doc" /\ apps_json' # apps_json) =>
            \A k \in (DOMAIN apps_json.doc) \ {"apps"} :
                /\ k \in DOMAIN apps_json'.doc
                /\ apps_json'.doc[k] = apps_json.doc[k] ]_vars

\* C14 witness: a reset replaced the apps of a document that has an env
\* value and an unrecognized key, and both are in the file it wrote
C14_Witness ==
    /\ last.mode = "reset" /\ last.result = "success"
    /\ ManualApp(os_name) \in EntrySet(backup)
    /\ apps_json.doc.env = "E" /\ apps_json.doc.extra = "X"
    /\ NamesOf(apps_json) = StockNames(last.host)

\* C15: a normal run that reaches its save, and that the file system lets
\* save, completes and writes whatever the artwork providers answered; when
\* no provider yields an image, every entry the run added has an empty
\* artwork reference
C15_ArtworkFailureTolerated ==
    [][ (last'.mode = "normal" /\ last'.io = "ok") =>
            /\ last'.result = "success"
            /\ apps_json'.kind = "doc"
            /\ last'.artwork = "down" =>
                  \A e \in EntrySet(apps_json') \ EntrySet(apps_json) : e.image_path = <<>> ]_vars

\* C15 witness: a run added Steam titles while no provider yielded an image,
\* and wrote them without artwork
C15_Witness ==
    /\ last.mode = "normal" /\ last.result = "success"
    /\ last.artwork = "down"
    /\ last.new_games # {}
    /\ \E e \in EntrySet(apps_json) :
          /\ InferredSteamId(e) \in last.new_games
          /\ e.image_path = <<>>

C17_ShortcutRemovalConfined ==
    [][ \A p \in DOMAIN files : (IsLnk(p) /\ ~InsideShortcuts(p)) => SameFile(p) ]_vars

\* an entry that a run added for the Xbox title, or for the custom title, of
\* the machine: no entry written by hand has these commands
AddedForXbox(e) == Strip(e.cmd) = XboxExe
AddedForCustom(e) == Strip(e.cmd) = CustomExe(os_name)

\* C18: in a normal run that does not fail, an entry that an earlier run
\* added for an Xbox title or a custom title that this run does not discover
\* is dropped from the apps list, as a Steam or Epic entry is
C18_DiffSourceIndependent ==
    [][ (last'.mode = "normal" /\ last'.result # "failure") =>
            \A e \in EntrySet(apps_json) :
                /\ (AddedForXbox(e) /\ XboxExe \notin last'.ids.xbox) =>
                       e \notin EntrySet(apps_json')
                /\ (AddedForCustom(e) /\ CustomExe(os_name) \notin last'.ids.custom) =>
                       e \notin EntrySet(apps_json') ]_vars

\* the group of an entry of the written list: 1 for an entry the file held
\* whose command matches no source pattern, 2 for an entry the file held that
\* a source owns, 3 for an entry the run added
GroupOf(e, old, xbox_found) ==
    IF e \notin EntrySet(old) THEN 3
    ELSE IF MatchesNoPattern(e, xbox_found) THEN 1 ELSE 2

\* whether the sequence a is the sequence b with some elements left out
RECURSIVE IsSubsequence(_, _)
IsSubsequence(a, b) ==
    IF a = <<>> THEN TRUE
    ELSE IF b = <<>> THEN FALSE
    ELSE IF Head(a) = Head(b) THEN IsSubsequence(Tail(a), Tail(b))
    ELSE IsSubsequence(a, Tail(b))

\* the number of titles that a run found new
AddedCount(r) ==
    Cardinality(r.new_games) + Cardinality(r.new_epic) + Cardinality(r.new_xbox)
        + Len(r.new_custom)

\* C19: the apps list written by a normal run is ordered by group: the
\* unowned entries, then the kept source-owned entries, then the added ones
C19_OpaqueFirst ==
    [][ (last'.mode = "normal" /\ last'.result = "success" /\ last'.io = "ok") =>
            \A i, j \in 1..Len(AppsOf(apps_json')) :
                i < j => GroupOf(AppsOf(apps_json')[i], apps_json, last'.ids.xbox)
                           <= GroupOf(AppsOf(apps_json')[j], apps_json, last'.ids.xbox) ]_vars

\* C19, as the code orders: the apps list written by a normal run begins
\* with kept entries, unowned and source-owned alike, in the order the file
\* had them, and ends with the entries the run added, which are no more than
\* the titles the run found new
C19_KeptOrderThenAdded ==
    [][ (last'.mode = "normal" /\ last'.result = "success" /\ last'.io = "ok") =>
            \E n \in 0..Len(AppsOf(apps_json')) :
                /\ Len(AppsOf(apps_json')) - n <= AddedCount(last')
                /\ IsSubsequence(SubSeq(AppsOf(apps_json'), 1, n), AppsOf(apps_json)) ]_vars

\* C19 witness: a run wrote a list in which a kept Steam entry comes before a
\* kept unowned entry and an added entry comes last
C19_Witness ==
    /\ last.mode = "normal" /\ last.result = "success" /\ last.io = "ok"
    /\ Len(AppsOf(apps_json)) = 3
    /\ AppsOf(apps_json)[1] = OldSteamApp(os_name)
    /\ AppsOf(apps_json)[2] = ManualApp(os_name)
    /\ AppsOf(apps_json)[3] \notin EntrySet(backup)
    /\ AppsOf(backup) = <<OldSteamApp(os_name), ManualApp(os_name)>>

\* the replies after which get_game_name may ask again
MayRetryAfter(reply) == reply \in {"timeout", "request_error", "bad_json"}

\* what holds of a lookup at every moment: no more than 3 requests, a
\* further request only after replies that allow a retry, and the delays
\* slept so far are 1, then 2, one after each request but the latest
LookupBounds ==
    /\ lookup.requests <= 3
    /\ \A k \in 1..(lookup.requests - 1) : MayRetryAfter(lookup.replies[k])
    /\ Len(lookup.slept) <= 2
    /\ \A k \in 1..Len(lookup.slept) : lookup.slept[k] = k
    /\ (lookup.pc \in {"request", "done"} /\ lookup.requests >= 1) =>
           Len(lookup.slept) = lookup.requests - (IF lookup.pc = "done" THEN 1 ELSE 0)

\* a request that meets a response without the success flag, or an unexpected
\* error, ends the lookup at once with no result and without a sleep
EndsAtOnce ==
    (lookup.pc = "request"
       /\ lookup.replies[lookup.attempt + 1] \in {"no_data", "unexpected"}
       /\ lookup' # lookup) =>
        /\ lookup'.pc = "done"
        /\ lookup'.result = None
        /\ lookup'.slept = lookup.slept

\* C20: a Steam name lookup makes at most 3 requests; it asks again only
\* after a timeout or a request failure, having slept 1 and then 2, and does
\* not sleep after its last request; a response without the success flag or
\* an unexpected error ends it at once with no result; every lookup ends
C20_LookupRetries ==
    /\ []LookupBounds
    /\ [][EndsAtOnce]_vars
    /\ (lookup.pc = "request") ~> (lookup.pc = "done")

\* C20 witness: a lookup ended with no result after three requests that met
\* a timeout, a request error and a timeout, having slept 1 and then 2
C20_Witness ==
    /\ lookup.pc = "done" /\ lookup.requests = 3 /\ lookup.result = None
    /\ lookup.replies = <<"timeout", "request_error", "timeout">>
    /\ lookup.slept = <<1, 2>>

\* the number of tasks that fetched the app id from the network
Fetches(id) ==
    Cardinality({ t \in 1..Len(pool.ids) : pool.ids[t] = id /\ pool.fetches[t] = 1 })

\* C21: within one process an app id is fetched from the network at most
\* once, however many tasks of the pool were submitted for it
C21_FetchedOnce ==
    \A id \in {Id100, Id200} : Fetches(id) <= 1

\* the tiers that apply to a resolution, in the order of the spec: the grid
\* provider when the credential is not blank, then the three CDN images
TiersFor(api_key) ==
    (IF api_key # None /\ \E k \in 1..Len(api_key) : api_key[k] # " "
     THEN <<GRID_PROVIDER>> ELSE <<>>) \o CdnTiers

\* the payload is a valid image
ValidImage(tier, reply) == reply \in {"image", "small_image"}

\* the payload is a valid image that the tier accepts: a CDN tier wants at
\* least 500 bytes
AcceptedImage(tier, reply) ==
    reply = "image" \/ (tier = GRID_PROVIDER /\ reply = "small_image")

\* the tiers were asked in order, each only after every earlier one yielded
\* nothing, and the resolution ended at the first tier that yielded
TiersInOrder(Yields(_, _)) ==
    LET tiers == TiersFor(resolve.api_key)
        n == Len(resolve.tried)
    IN  /\ n <= Len(tiers)
        /\ resolve.tried = SubSeq(tiers, 1, n)
        /\ \A k \in 1..(n - 1) : ~Yields(tiers[k], resolve.replies[tiers[k]])
        /\ (n >= 1 /\ Yields(tiers[n], resolve.replies[tiers[n]])) =>
               resolve.pc = "done" /\ resolve.path = tiers[n]
        /\ resolve.pc = "done" =>
               \/ n >= 1 /\ Yields(tiers[n], resolve.replies[tiers[n]])
               \/ n = Len(tiers) /\ resolve.path = None

\* C22: artwork resolution for a Steam title asks the grid provider (only
\* with a credential that is not blank), then the CDN high-resolution cover,
\* the standard cover and the header tile, each only if every earlier tier
\* yielded nothing; the first tier that yields a valid image ends it
C22_FirstValidImageWins ==
    TiersInOrder(ValidImage)

\* C22, with the size test of the CDN tiers: as above, a CDN payload of fewer
\* than 500 bytes counting as that tier yielding nothing
C22_FirstAcceptedImageWins ==
    TiersInOrder(AcceptedImage)

\* C22 witness: a resolution with a credential asked all four tiers and
\* stored the header tile, the grid provider having sent an invalid payload
C22_Witness ==
    /\ resolve.pc = "done" /\ resolve.path = CdnTiers[3]
    /\ resolve.tried = <<GRID_PROVIDER>> \o CdnTiers
    /\ resolve.replies[GRID_PROVIDER] = "invalid"
    /\ resolve.replies[CdnTiers[1]] = "small_image"

\* the paths that fetch_grid_by_name writes for a title: the file the tier
\* stores under the Steam id that the search gave, and the title's own file
\* that it is moved to
WritesByName(game_name, net, file_safe_id) ==
    LET steam_id == _steamgriddb_search_steam_id(game_name, net)
    IN  IF steam_id = None THEN {}
        ELSE (DOMAIN FirstTier(fetch_grid_from_steamgriddb(NoTitles, steam_id, net),
                               fetch_grid_from_steam_cdn(NoTitles, steam_id, net)).fs)
             \cup (DOMAIN fetch_grid_by_name(NoTitles, game_name, net, file_safe_id).fs)

\* the artwork paths written for each title that a run adds, the run having
\* discovered lib, under the network net and the hash function h
WritesOfAdded(r, lib, net, h) ==
    { [title |-> <<"steam", id>>, paths |-> DOMAIN fetch_grid(NoTitles, id, net).fs] :
        id \in r.new_games }
    \cup
    { [title |-> <<"epic", app_name>>,
       paths |-> WritesByName(lib.epic[app_name], net, EPIC_ID_TAG \o SafeChars(app_name))] :
        app_name \in r.new_epic }
    \cup
    { [title |-> <<"xbox", exe>>,
       paths |-> WritesByName(lib.xbox[exe], net, XBOX_ID_TAG \o h)] :
        exe \in r.new_xbox }
    \cup
    { [title |-> <<"custom", lib.custom[k].cmd>>,
       paths |-> IF lib.custom[k].image_path # <<>> THEN {}
                 ELSE WritesByName(lib.custom[k].name, net, CUSTOM_ID_TAG \o h)] :
        k \in { j \in 1..Len(lib.custom) :
                  \E i \in 1..Len(r.new_custom) : r.new_custom[i] = lib.custom[j].cmd } }

\* the networks under which a run can have reported r
NetsOf(r) ==
    { net \in NetCases : (r.artwork = "down") <=> (~net.cdn /\ ~(net.key /\ net.grid)) }

\* C23: within one normal run no two titles being added, of whatever source,
\* write to the same path of the artwork directory
C23_DistinctArtworkPaths ==
    [][ last'.mode = "normal" =>
            \A lib \in Libraries(os_name) : \A net \in NetsOf(last') : \A h \in HashValues :
                IdsOf(lib) = last'.ids =>
                    \A a, b \in WritesOfAdded(last', lib, net, h) :
                        a.title # b.title => a.paths \cap b.paths = {} ]_vars

\* the titles of the identities ids, whatever their names
Titled(ids) == [id \in ids |-> "x"]

\* what the ownership inference of the next run makes of the stored apps
\* list when that run discovers the identities of r again
Reinferred(r) ==
    process_existing_apps([apps |-> AppsOf(apps_json)], Titled(r.ids.steam),
                          Titled(r.ids.epic), Titled(r.ids.xbox), shortcuts_folder, files)

StoredAs(r, p) ==
    /\ \A id \in r.new_games : ~SteamLaunch(id).raises => id \in p.existing_steam_apps
    /\ r.new_epic \subseteq p.existing_epic_apps
    /\ r.new_xbox \subseteq p.existing_xbox_cmds
    /\ \A k \in 1..Len(r.new_custom) :
          \/ Strip(r.new_custom[k]) \in ExistingCmds(p.updated_apps)
          \/ NormPath(os_name, Strip(r.new_custom[k])) \in ExistingCmds(p.updated_apps)

\* C24: when a normal run has saved, the command stored for every title it
\* added is read by the ownership inference of the next run as the same
\* source with the same identity: Steam id, Epic app name, Xbox executable
\* path, custom command
C24_BuilderInferenceRoundTrip ==
    (last.mode = "normal" /\ last.result = "success") => StoredAs(last, Reinferred(last))

\* C25: in a normal run that does not fail, a configured Steam entry whose
\* app id the library description still lists stays in the apps list and
\* keeps its artwork file, whether or not the name lookup of the run gave a
\* name for it
C25_LookupFailureKeepsEntry ==
    [][ (last'.mode = "normal" /\ last'.result # "failure") =>
            \A e \in EntrySet(apps_json) :
                (InferredSteamId(e) # None /\ InferredSteamId(e) \in last'.ids.listed) =>
                    /\ e \in EntrySet(apps_json')
                    /\ e.image_path # <<>> => SameFile(e.image_path) ]_vars

\* C26: in a normal run that adds no Steam title, the artwork file of every
\* entry that the run keeps is as it was: the artwork fetched for the added
\* Epic, Xbox and custom titles does not overwrite, move or delete it
C26_NamedFetchSparesOtherArtwork ==
    [][ (last'.mode = "normal" /\ last'.result # "failure" /\ last'.new_games = {}) =>
            \A e \in EntrySet(apps_json) \cap EntrySet(apps_json') :
                e.image_path # <<>> => SameFile(e.image_path) ]_vars

\* no two entries of the apps list of the file have the same command, the
\* identity that every source gives its entries
OneEntryPerIdentity(file) ==
    \A i, j \in 1..Len(AppsOf(file)) :
        (i < j /\ Strip(AppsOf(file)[i].cmd) # <<>>) =>
            Strip(AppsOf(file)[i].cmd) # Strip(AppsOf(file)[j].cmd)

\* C27: a normal run that starts from an apps list with at most one entry
\* per source identity saves an apps list with at most one entry per source
\* identity
C27_NoDuplicateEntries ==
    [][ (last'.mode = "normal" /\ last'.result = "success" /\ OneEntryPerIdentity(apps_json)) =>
            OneEntryPerIdentity(apps_json') ]_vars

\* C28: a run given --remove-games together with --dry-run writes and deletes
\* nothing: the configuration file, its backups and every file of the artwork
\* and shortcuts directories are as they were
C28_DryResetPurity ==
    [][ (last'.mode = "reset" /\ last'.dry_run) =>
            /\ apps_json' = apps_json
            /\ backup' = backup /\ user_backup' = user_backup
            /\ files' = files ]_vars

\* the display names of the titles the run r reports as to add, when lib is
\* the library it discovered
ReportedToAdd(r, lib) ==
    { lib.steam[id] : id \in r.new_games }
    \cup { lib.epic[app_name] : app_name \in r.new_epic }
    \cup { lib.xbox[exe] : exe \in r.new_xbox }
    \cup { lib.custom[k].name : k \in { j \in 1..Len(lib.custom) :
                                       \E n \in 1..Len(r.new_custom) :
                                           r.new_custom[n] = lib.custom[j].cmd } }

\* C29: every title a normal run reports as to add is an entry of the apps
\* list that the run saves
C29_ReportedTitlesAreSaved ==
    [][ (last'.mode = "normal" /\ last'.result = "success") =>
            \A lib \in Libraries(os_name) :
                IdsOf(lib) = last'.ids =>
                    \A name \in ReportedToAdd(last', lib) :
                        \E e \in EntrySet(apps_json') : e.name = name ]_vars

\* the step is a normal run that does not fail and directly follows a
\* completed reset
NormalRunAfterReset ==
    /\ last.mode = "reset" /\ last.result = "success"
    /\ last'.mode = "normal" /\ last'.result # "failure"

\* C30: a normal run that follows a reset keeps every stock entry the reset
\* wrote, field for field and in place; none of them is taken for a Steam or
\* an Epic entry, none is removed, and with nothing discovered the run
\* reports that nothing changed
C30_StockEntriesKept ==
    [][ NormalRunAfterReset =>
            /\ SubSeq(AppsOf(apps_json'), 1, Len(AppsOf(apps_json))) = AppsOf(apps_json)
            /\ AppsOf(apps_json) = get_stock_default_apps(last.host)
            /\ \A e \in EntrySet(apps_json) :
                   InferredSteamId(e) = None /\ InferredEpicName(e) = None
            /\ last'.removed_steam = <<>> /\ last'.removed_epic = <<>>
            /\ last'.kept_steam = {}
            /\ (last'.new_games = {} /\ last'.new_epic = {} /\ last'.new_xbox = {}
                  /\ last'.new_custom = <<>>) => last'.result = "no_changes" ]_vars

\* a run after a reset of an Apollo host has added a title behind the three
\* stock entries
C30_Witness ==
    /\ runs = 2
    /\ last.mode = "normal" /\ last.result = "success" /\ last.new_games # {}
    /\ Len(AppsOf(apps_json)) > 3
    /\ SubSeq(AppsOf(apps_json), 1, 3) = get_stock_default_apps(APOLLO)

====
